---- MODULE Spec2Model ----
(***************************************************************************)
(* A model of the IPL match predictor: the model store of                  *)
(* backend/model/predict.py (load_model and its two module globals), the   *)
(* predictor (predict_match, batch_predict), the /api/predict handler of   *)
(* backend/app.py and the aggregation and cleaning steps of                *)
(* backend/preprocessing/feature_engineering.py.                           *)
(*                                                                         *)
(* Six specifications share the variables:                                 *)
(*   Spec            load_model called from concurrent request threads     *)
(*   SpecSeq         load_model called sequentially                        *)
(*   SpecApi         the Flask application: startup load, then requests    *)
(*   SpecPredictor   predict_match and batch_predict called directly       *)
(*   SpecAggregator  aggregate_features over a table of deliveries         *)
(*   SpecCleaner     clean_data over a table of innings summaries          *)
(***************************************************************************)
EXTENDS Integers, Sequences, FiniteSets, TLC

VARIABLES
    cached_model,   \* predict.py global _cached_model
    model_path,     \* predict.py global _model_path
    storage,        \* the file system: what lies at each model path
    nextId,         \* identities handed out to deserialized objects so far
    thr,            \* Spec: each request thread's position in load_model
    lastCall,       \* SpecSeq: the record of the last load_model call
    http,           \* SpecApi: phase, last request body and its response
    pred,           \* SpecPredictor: the last predictor call
    deliveries,     \* SpecAggregator: the ball-by-ball table
    summary,        \* SpecAggregator: the table aggregate_features returned
    cleaning        \* SpecCleaner: a summary table and its passes through clean_data

vars == <<cached_model, model_path, storage, nextId, thr, lastCall, http, pred,
          deliveries, summary, cleaning>>

storeVars == <<cached_model, model_path, storage, nextId>>

(***************************************************************************)
(* Bounds of the model.                                                    *)
(***************************************************************************)
MaxLoads == 3        \* deserializations in one behaviour
MaxBatch == 2        \* mappings in the list given to the predictor
MaxDeliveries == 2   \* rows of the ball-by-ball table

(***************************************************************************)
(* Values.                                                                 *)
(***************************************************************************)
\* app.py MODEL_PATH, and the default of predict.py's model_path parameters
MODEL_PATH == "model/model.pkl"
DefaultPath == "model.pkl"
Paths == {MODEL_PATH, DefaultPath}

\* Python's None, for a path and for an object reference
NonePath == "None"
None == [id |-> 0, src |-> "None"]

\* What lies at a path: nothing, a loadable artifact, or an artifact that
\* joblib.load cannot deserialize (cut short, or not a pickle at all).
Artifacts == {"missing", "ok", "truncated", "garbage"}

Threads == {"t1", "t2"}

\* The object joblib.load returns: a fresh identity, deserialized from src.
Handle(n, p) == [id |-> n, src |-> p]

(***************************************************************************)
(* load_model, piece by piece.                                             *)
(***************************************************************************)
\* predict.py:30, left operand: _cached_model is not None
IsLoaded(m) == m # None

\* predict.py:30, right operand: _model_path == model_path
PathMatchesAlways(mp, p) == TRUE
PathMatches(mp, p) == mp = p

\* predict.py:30, the whole condition
CacheHit(m, mp, p) == IsLoaded(m) /\ PathMatches(mp, p)

\* predict.py:34 os.path.exists(model_path)
Exists(st, p) == st[p] # "missing"

\* predict.py:37 joblib.load(model_path): the exception a path's content raises
\* ("none" when it deserializes). A file that is gone by now fails in open().
JoblibLoadError(st, p) ==
    CASE st[p] = "ok"        -> "none"
      [] st[p] = "truncated" -> "EOFError"
      [] st[p] = "garbage"   -> "UnpicklingError"
      [] st[p] = "missing"   -> "FileNotFoundError"

\* load_model with _model_path assigned before the load is attempted: a load
\* that raises leaves the requested path beside the old handle
LoadModelPathFirst(m, mp, st, p, n) ==
    IF CacheHit(m, mp, p)
    THEN [ret |-> m, exc |-> "none", cached |-> m, path |-> mp,
          touched |-> FALSE, loaded |-> FALSE]
    ELSE IF ~Exists(st, p)
    THEN [ret |-> None, exc |-> "FileNotFoundError", cached |-> m, path |-> mp,
          touched |-> TRUE, loaded |-> FALSE]
    ELSE IF JoblibLoadError(st, p) # "none"
    THEN [ret |-> None, exc |-> JoblibLoadError(st, p), cached |-> m, path |-> p,
          touched |-> TRUE, loaded |-> FALSE]
    ELSE [ret |-> Handle(n + 1, p), exc |-> "none", cached |-> Handle(n + 1, p),
          path |-> p, touched |-> TRUE, loaded |-> TRUE]

\* load_model run without interruption: what it returns or raises, what it
\* leaves in the two globals, whether it touched storage (os.path.exists,
\* joblib.load) and whether it deserialized.
LoadModel(m, mp, st, p, n) ==
    IF CacheHit(m, mp, p)
    THEN [ret |-> m, exc |-> "none", cached |-> m, path |-> mp,
          touched |-> FALSE, loaded |-> FALSE]
    ELSE IF ~Exists(st, p)
    THEN [ret |-> None, exc |-> "FileNotFoundError", cached |-> m, path |-> mp,
          touched |-> TRUE, loaded |-> FALSE]
    ELSE IF JoblibLoadError(st, p) # "none"
    THEN [ret |-> None, exc |-> JoblibLoadError(st, p), cached |-> m, path |-> mp,
          touched |-> TRUE, loaded |-> FALSE]
    ELSE [ret |-> Handle(n + 1, p), exc |-> "none", cached |-> Handle(n + 1, p),
          path |-> p, touched |-> TRUE, loaded |-> TRUE]

(***************************************************************************)
(* The environment: a training run saves an artifact (train.py joblib.dump) *)
(* or the file is removed or damaged.                                      *)
(***************************************************************************)
SetArtifact(p, a) ==
    /\ storage[p] # a
    /\ storage' = [storage EXCEPT ![p] = a]
    /\ UNCHANGED <<cached_model, model_path, nextId>>

(***************************************************************************)
(* Spec: load_model called from concurrent request threads. A thread can   *)
(* be preempted between any two accesses of the globals.                   *)
(***************************************************************************)
IdleThread == [pc |-> "idle", arg |-> NonePath, obj |-> None, result |-> None,
               exc |-> "none", emptyAtCall |-> FALSE, didLoad |-> FALSE]

Started == Cardinality({t \in Threads : thr[t].pc # "idle"})

\* a request thread enters load_model(p)
Call(t, p) ==
    /\ thr[t].pc = "idle"
    /\ nextId + Started < MaxLoads
    /\ thr' = [thr EXCEPT ![t] = [IdleThread EXCEPT !.pc = "L30a", !.arg = p,
                                   !.emptyAtCall = ~IsLoaded(cached_model)]]
    /\ UNCHANGED storeVars

\* predict.py:30 reads _cached_model
CheckLoaded(t) ==
    /\ thr[t].pc = "L30a"
    /\ thr' = [thr EXCEPT ![t].pc = IF IsLoaded(cached_model) THEN "L30b" ELSE "L34"]
    /\ UNCHANGED storeVars

\* predict.py:30 reads _model_path
CheckPath(t) ==
    /\ thr[t].pc = "L30b"
    /\ thr' = [thr EXCEPT ![t].pc = IF PathMatches(model_path, thr[t].arg)
                                     THEN "L31" ELSE "L34"]
    /\ UNCHANGED storeVars

\* predict.py:31 return _cached_model
ReturnCached(t) ==
    /\ thr[t].pc = "L31"
    /\ thr' = [thr EXCEPT ![t].pc = "done", ![t].result = cached_model]
    /\ UNCHANGED storeVars

\* predict.py:34-35
CheckExists(t) ==
    /\ thr[t].pc = "L34"
    /\ thr' = [thr EXCEPT ![t].pc = IF Exists(storage, thr[t].arg) THEN "L37" ELSE "raised",
                          ![t].exc = IF Exists(storage, thr[t].arg) THEN "none"
                                     ELSE "FileNotFoundError"]
    /\ UNCHANGED storeVars

\* predict.py:37, the call joblib.load(model_path)
Deserialize(t) ==
    /\ thr[t].pc = "L37"
    /\ LET e == JoblibLoadError(storage, thr[t].arg) IN
       IF e = "none"
       THEN /\ thr' = [thr EXCEPT ![t].pc = "L37s", ![t].didLoad = TRUE,
                                  ![t].obj = Handle(nextId + 1, thr[t].arg)]
            /\ nextId' = nextId + 1
       ELSE /\ thr' = [thr EXCEPT ![t].pc = "raised", ![t].exc = e]
            /\ UNCHANGED nextId
    /\ UNCHANGED <<cached_model, model_path, storage>>

\* predict.py:37, the store into _cached_model
StoreModel(t) ==
    /\ thr[t].pc = "L37s"
    /\ cached_model' = thr[t].obj
    /\ thr' = [thr EXCEPT ![t].pc = "L38"]
    /\ UNCHANGED <<model_path, storage, nextId>>

\* predict.py:38
StorePath(t) ==
    /\ thr[t].pc = "L38"
    /\ model_path' = thr[t].arg
    /\ thr' = [thr EXCEPT ![t].pc = "L40"]
    /\ UNCHANGED <<cached_model, storage, nextId>>

\* predict.py:40 return _cached_model
ReturnLoaded(t) ==
    /\ thr[t].pc = "L40"
    /\ thr' = [thr EXCEPT ![t].pc = "done", ![t].result = cached_model]
    /\ UNCHANGED storeVars

\* the caller takes the result or the exception; the thread serves the next request
Return(t) ==
    /\ thr[t].pc \in {"done", "raised"}
    /\ thr' = [thr EXCEPT ![t] = IdleThread]
    /\ UNCHANGED storeVars

InitStore ==
    /\ cached_model = None
    /\ model_path = NonePath
    /\ storage \in [Paths -> Artifacts]
    /\ nextId = 0

Unused == "unused"

Init ==
    /\ InitStore
    /\ thr = [t \in Threads |-> IdleThread]
    /\ lastCall = Unused
    /\ http = Unused
    /\ pred = Unused
    /\ deliveries = Unused
    /\ summary = Unused
    /\ cleaning = Unused

Next ==
    \/ \E t \in Threads, p \in Paths : Call(t, p) /\ UNCHANGED <<lastCall, http, pred, deliveries, summary, cleaning>>
    \/ \E t \in Threads : CheckLoaded(t) /\ UNCHANGED <<lastCall, http, pred, deliveries, summary, cleaning>>
    \/ \E t \in Threads : CheckPath(t) /\ UNCHANGED <<lastCall, http, pred, deliveries, summary, cleaning>>
    \/ \E t \in Threads : ReturnCached(t) /\ UNCHANGED <<lastCall, http, pred, deliveries, summary, cleaning>>
    \/ \E t \in Threads : CheckExists(t) /\ UNCHANGED <<lastCall, http, pred, deliveries, summary, cleaning>>
    \/ \E t \in Threads : Deserialize(t) /\ UNCHANGED <<lastCall, http, pred, deliveries, summary, cleaning>>
    \/ \E t \in Threads : StoreModel(t) /\ UNCHANGED <<lastCall, http, pred, deliveries, summary, cleaning>>
    \/ \E t \in Threads : StorePath(t) /\ UNCHANGED <<lastCall, http, pred, deliveries, summary, cleaning>>
    \/ \E t \in Threads : ReturnLoaded(t) /\ UNCHANGED <<lastCall, http, pred, deliveries, summary, cleaning>>
    \/ \E t \in Threads : Return(t) /\ UNCHANGED <<lastCall, http, pred, deliveries, summary, cleaning>>
    \/ \E p \in Paths, a \in Artifacts : SetArtifact(p, a) /\ UNCHANGED <<thr, lastCall, http, pred, deliveries, summary, cleaning>>

Spec == Init /\ [][Next]_vars

(***************************************************************************)
(* C1. Single-flight: of the concurrent load_model(p) calls issued while   *)
(* the cache is empty, exactly one deserializes the artifact and all of    *)
(* them return the same handle.                                            *)
(***************************************************************************)
FirstAccess(t) == thr[t].pc = "done" /\ thr[t].emptyAtCall

C1_SingleFlight ==
    \A t, u \in Threads :
        (t # u /\ FirstAccess(t) /\ FirstAccess(u) /\ thr[t].arg = thr[u].arg)
            => /\ thr[t].result = thr[u].result
               /\ ~(thr[t].didLoad /\ thr[u].didLoad)

(***************************************************************************)
(* SpecSeq: load_model called sequentially, each call run to its end.      *)
(***************************************************************************)
\* what a call record keeps of the call before it
Earlier(call) == [made |-> call.made, exc |-> call.exc, preModel |-> call.preModel,
                  prePath |-> call.prePath]

NoCall == [made |-> FALSE, arg |-> NonePath, preModel |-> None, prePath |-> NonePath,
           ret |-> None, exc |-> "none", touched |-> FALSE, loaded |-> FALSE,
           prev |-> [made |-> FALSE, exc |-> "none", preModel |-> None,
                     prePath |-> NonePath]]

\* one call load_model(p), predict.py:27-44
LoadModelCall(p) ==
    /\ nextId < MaxLoads
    /\ \E r \in {LoadModel(cached_model, model_path, storage, p, nextId)} :
        /\ cached_model' = r.cached
        /\ model_path' = r.path
        /\ nextId' = IF r.loaded THEN nextId + 1 ELSE nextId
        /\ lastCall' = [made |-> TRUE, arg |-> p, preModel |-> cached_model,
                        prePath |-> model_path, ret |-> r.ret, exc |-> r.exc,
                        touched |-> r.touched, loaded |-> r.loaded,
                        prev |-> Earlier(lastCall)]
    /\ UNCHANGED storage

InitSeq ==
    /\ InitStore
    /\ lastCall = NoCall
    /\ thr = Unused
    /\ http = Unused
    /\ pred = Unused
    /\ deliveries = Unused
    /\ summary = Unused
    /\ cleaning = Unused

NextSeq ==
    \/ \E p \in Paths : LoadModelCall(p) /\ UNCHANGED <<thr, http, pred, deliveries, summary, cleaning>>
    \/ \E p \in Paths, a \in Artifacts : SetArtifact(p, a) /\ UNCHANGED <<thr, lastCall, http, pred, deliveries, summary, cleaning>>

SpecSeq == InitSeq /\ [][NextSeq]_vars

(***************************************************************************)
(* C2. Single-slot cache: a sequential call load_model(p) touches storage  *)
(* exactly when nothing is cached or the cached path differs from p; on a  *)
(* hit the cached handle comes back and the slot is unchanged, whatever    *)
(* lies at p by then; a successful load leaves exactly the new handle and  *)
(* path in the slot, and the old handle is gone.                           *)
(***************************************************************************)
C2_SingleSlot ==
    lastCall.made =>
        /\ lastCall.touched <=> (lastCall.preModel = None \/ lastCall.prePath # lastCall.arg)
        /\ ~lastCall.touched =>
              /\ lastCall.exc = "none"
              /\ lastCall.ret = lastCall.preModel
              /\ cached_model = lastCall.preModel
              /\ model_path = lastCall.prePath
        /\ (lastCall.touched /\ lastCall.exc = "none") =>
              /\ lastCall.loaded
              /\ cached_model = lastCall.ret
              /\ model_path = lastCall.arg
              /\ lastCall.ret.src = lastCall.arg
              /\ lastCall.ret # lastCall.preModel
              /\ lastCall.ret # None

\* a hit on a path whose artifact has disappeared since it was loaded, after
\* the slot had held the other path's model
C2_Witness ==
    /\ lastCall.made
    /\ ~lastCall.touched
    /\ storage[lastCall.arg] = "missing"
    /\ lastCall.ret.id = 2

(***************************************************************************)
(* Python values, dicts and pandas tables, as far as the predictor and the *)
(* request handler use them.                                               *)
(***************************************************************************)
Num(n) == [k |-> "num", n |-> n, s |-> ""]
Str(t) == [k |-> "str", n |-> 0, s |-> t]
Null == [k |-> "null", n |-> 0, s |-> ""]
NaN == [k |-> "nan", n |-> 0, s |-> ""]

\* a dict: its keys in insertion order, and the value of each
Has(d, key) == key \in DOMAIN d.val
SeqSet(q) == {q[i] : i \in 1..Len(q)}

\* the elements of q that lie outside the set S, in q's order
Without(q, S) == SelectSeq(q, LAMBDA x : x \notin S)

\* pd.DataFrame(list of dicts), predict.py:87 and :136: the columns are the
\* keys in order of first appearance, a key a row lacks reads NaN in that row
RECURSIVE UnionKeys(_)
UnionKeys(ds) ==
    IF ds = <<>> THEN <<>>
    ELSE LET front == UnionKeys(SubSeq(ds, 1, Len(ds) - 1))
         IN front \o Without(ds[Len(ds)].keys, SeqSet(front))

DataFrame(ds) ==
    LET cols == UnionKeys(ds) IN
    [columns |-> cols,
     rows |-> [i \in 1..Len(ds) |->
                 [c \in SeqSet(cols) |-> IF Has(ds[i], c) THEN ds[i].val[c] ELSE NaN]]]

\* input_df[feature_columns], predict.py:95 and :144: a KeyError naming the
\* labels that are no column, else the table with exactly these columns
NotInIndex(df, cols) == Without(cols, SeqSet(df.columns))

Project(df, cols) ==
    [columns |-> cols,
     rows |-> [i \in 1..Len(df.rows) |-> [c \in SeqSet(cols) |-> df.rows[i][c]]]]

(***************************************************************************)
(* The feature lists of the source.                                        *)
(***************************************************************************)
\* predict.py:76-80 (and app.py:106-110, the same list)
required_fields ==
    <<"batting_team", "bowling_team", "venue", "city", "total_runs",
      "total_wickets", "overs_played", "extras_total", "run_rate">>

\* predict.py:90-94 (the first list is the slip of reusing the order of :76-80)
feature_columns_as_validated == required_fields
feature_columns ==
    <<"batting_team", "bowling_team", "venue", "city", "total_runs",
      "total_wickets", "run_rate", "extras_total", "overs_played">>

\* predict.py:139-143
batch_feature_columns ==
    <<"batting_team", "bowling_team", "venue", "city", "total_runs",
      "total_wickets", "run_rate", "extras_total", "overs_played">>

\* train.py:66-69
categorical_features == <<"batting_team", "bowling_team", "venue", "city">>
numerical_features ==
    <<"total_runs", "total_wickets", "run_rate", "extras_total", "overs_played">>
train_feature_columns == categorical_features \o numerical_features

(***************************************************************************)
(* The Estimator (the pipeline train.py fits): opaque, deterministic in    *)
(* the handle and the row. Probabilities are in units of 1e-5. A numeric   *)
(* column holding anything but a finite number makes it raise (NaN is      *)
(* taken as refused, as scikit-learn's forests before 1.4 do).             *)
(***************************************************************************)
RowOk(row) == \A c \in SeqSet(numerical_features) : row[c].k = "num"

EstimatorAccepts(X) == \A i \in 1..Len(X.rows) : RowOk(X.rows[i])

RowScore(h, row) == (row["total_runs"].n + 3 * row["total_wickets"].n + h.id) % 4

\* model.predict_proba(X)[i]: <<P(loss), P(win)>>
ProbaOf(h, row) ==
    CASE RowScore(h, row) = 0 -> <<18763, 81237>>
      [] RowScore(h, row) = 1 -> <<62488, 37512>>
      [] RowScore(h, row) = 2 -> <<50001, 49999>>
      [] RowScore(h, row) = 3 -> <<3332, 96668>>

\* model.predict(X)[i]
LabelOf(h, row) == IF ProbaOf(h, row)[2] > ProbaOf(h, row)[1] THEN 1 ELSE 0

\* round(p, 4), in units of 1e-4 (no value above lies on a tie)
Round4(x) == (x + 5) \div 10

\* predict.py:105-110 and :152-157: the result dict of one row
ResultDict(label, proba) ==
    [prediction_label |-> label,
     win_probability |-> Round4(proba[2]),
     loss_probability |-> Round4(proba[1]),
     prediction_text |-> IF label = 1 THEN "Batting Team Wins" ELSE "Batting Team Loses"]

NoTable == [columns |-> <<>>, rows |-> <<>>]

(***************************************************************************)
(* The predictor.                                                          *)
(***************************************************************************)
\* what a predictor call leaves behind: the exception class ("none" when it
\* returns), where it was raised, the columns its message names, the table
\* handed to the Estimator (if it got that far), the handle used, the results
\* and the effect on the model store
Outcome(exc, stage, listed, handed, X, handle, results, lm) ==
    [exc |-> exc, stage |-> stage, listed |-> listed, handed |-> handed, X |-> X,
     handle |-> handle, results |-> results, cached |-> lm.cached, path |-> lm.path,
     loaded |-> lm.loaded, touched |-> lm.touched, loads |-> 1]

\* model.predict(X) and model.predict_proba(X), one entry per row
Predict(h, X) == [i \in 1..Len(X.rows) |-> LabelOf(h, X.rows[i])]
PredictProba(h, X) == [i \in 1..Len(X.rows) |-> ProbaOf(h, X.rows[i])]

\* predict.py:82-84: the loop raises at the first field the input lacks
FirstMissing(input) ==
    LET lacking == Without(required_fields, DOMAIN input.val)
    IN  IF lacking = <<>> THEN <<>> ELSE <<lacking[1]>>

\* predict_match(input_dict, model_path), predict.py:71-118
PredictMatch(input, p, m, mp, st, n) ==
    LET lm == LoadModel(m, mp, st, p, n)
        df == DataFrame(<<input>>)
        absent == NotInIndex(df, feature_columns)
        X == Project(df, feature_columns)
    IN  IF lm.exc # "none"
        THEN Outcome(lm.exc, "load", <<>>, FALSE, NoTable, None, <<>>, lm)
        ELSE IF FirstMissing(input) # <<>>
        THEN Outcome("ValueError", "missing", FirstMissing(input), FALSE, NoTable,
                     lm.ret, <<>>, lm)
        ELSE IF absent # <<>>
        THEN Outcome("KeyError", "missing", absent, FALSE, NoTable, lm.ret, <<>>, lm)
        ELSE IF ~EstimatorAccepts(X)
        THEN Outcome("ValueError", "estimator", <<>>, TRUE, X, lm.ret, <<>>, lm)
        ELSE Outcome("none", "", <<>>, TRUE, X, lm.ret,
                     <<ResultDict(Predict(lm.ret, X)[1], PredictProba(lm.ret, X)[1])>>, lm)

Min(a, b) == IF a < b THEN a ELSE b

\* batch_predict(input_list, model_path), predict.py:132-165
BatchPredict(inputs, p, m, mp, st, n) ==
    LET lm == LoadModel(m, mp, st, p, n)
        df == DataFrame(inputs)
        absent == NotInIndex(df, batch_feature_columns)
        X == Project(df, batch_feature_columns)
        predictions == Predict(lm.ret, X)
        probabilities == PredictProba(lm.ret, X)
    IN  IF lm.exc # "none"
        THEN Outcome(lm.exc, "load", <<>>, FALSE, NoTable, None, <<>>, lm)
        ELSE IF absent # <<>>
        THEN Outcome("KeyError", "missing", absent, FALSE, NoTable, lm.ret, <<>>, lm)
        ELSE IF ~EstimatorAccepts(X)
        THEN Outcome("ValueError", "estimator", <<>>, TRUE, X, lm.ret, <<>>, lm)
        ELSE Outcome("none", "", <<>>, TRUE, X, lm.ret,
                     [i \in 1..Min(Len(predictions), Len(probabilities)) |->
                         ResultDict(predictions[i], probabilities[i])], lm)

(***************************************************************************)
(* SpecPredictor: predict_match and batch_predict called directly, with    *)
(* the default model path, on a list of mappings fixed at the start.       *)
(***************************************************************************)
\* the mappings: two key orders, each with a key the contract does not know;
\* none, one or two required keys left out; two sets of values
KeyOrders ==
    {<<"season">> \o required_fields,
     <<"overs_played", "extras_total", "run_rate", "total_wickets", "total_runs",
       "city", "venue", "bowling_team", "batting_team", "match_id">>}
LeftOut == {{}, {"run_rate"}, {"venue", "city"}}
Variants == {"a", "b"}

SampleValue(v, key) ==
    CASE key = "batting_team"  -> Str(IF v = "a" THEN "Mumbai Indians" ELSE "Chennai Super Kings")
      [] key = "bowling_team"  -> Str(IF v = "a" THEN "Chennai Super Kings" ELSE "Mumbai Indians")
      [] key = "venue"         -> Str("Wankhede Stadium")
      [] key = "city"          -> Str("Mumbai")
      [] key = "total_runs"    -> Num(IF v = "a" THEN 180 ELSE 95)
      [] key = "total_wickets" -> Num(IF v = "a" THEN 5 ELSE 9)
      [] key = "overs_played"  -> Num(20)
      [] key = "extras_total"  -> Num(12)
      [] key = "run_rate"      -> Num(IF v = "a" THEN 9 ELSE 5)
      [] key = "season"        -> Str("2023")
      [] key = "match_id"      -> Num(1)

Mapping(order, out, v) ==
    [keys |-> Without(order, out),
     val |-> [key \in SeqSet(order) \ out |-> SampleValue(v, key)]]

Mappings == {Mapping(o, l, v) : o \in KeyOrders, l \in LeftOut, v \in Variants}

RECURSIVE ListsUpTo(_)
ListsUpTo(n) ==
    IF n = 0 THEN {<<>>}
    ELSE ListsUpTo(n - 1) \cup
         {Append(q, d) : q \in {r \in ListsUpTo(n - 1) : Len(r) = n - 1}, d \in Mappings}

NoOutcome == [Outcome("none", "", <<>>, FALSE, NoTable, None, <<>>,
                      [cached |-> None, path |-> NonePath, loaded |-> FALSE,
                       touched |-> FALSE])
              EXCEPT !.loads = 0]

ApplyOutcome(o) ==
    /\ cached_model' = o.cached
    /\ model_path' = o.path
    /\ nextId' = IF o.loaded THEN nextId + 1 ELSE nextId
    /\ UNCHANGED storage

\* predict_match(inputs[i])
PredictMatchCall(i) ==
    /\ nextId < MaxLoads
    /\ \E o \in {PredictMatch(pred.inputs[i], DefaultPath, cached_model, model_path,
                              storage, nextId)} :
        /\ ApplyOutcome(o)
        /\ pred' = [pred EXCEPT !.op = "predict_match", !.i = i, !.out = o]

\* batch_predict(inputs)
BatchPredictCall ==
    /\ nextId < MaxLoads
    /\ \E o \in {BatchPredict(pred.inputs, DefaultPath, cached_model, model_path,
                              storage, nextId)} :
        /\ ApplyOutcome(o)
        /\ pred' = [pred EXCEPT !.op = "batch_predict", !.i = 0, !.out = o]

InitPredictor ==
    /\ cached_model = None
    /\ model_path = NonePath
    /\ \E a \in Artifacts : storage = [q \in Paths |-> IF q = DefaultPath THEN a ELSE "missing"]
    /\ nextId = 0
    /\ \E l \in ListsUpTo(MaxBatch) : pred = [inputs |-> l, op |-> "none", i |-> 0, out |-> NoOutcome]
    /\ thr = Unused
    /\ lastCall = Unused
    /\ http = Unused
    /\ deliveries = Unused
    /\ summary = Unused
    /\ cleaning = Unused

NextPredictor ==
    \/ \E i \in 1..Len(pred.inputs) : PredictMatchCall(i) /\ UNCHANGED <<thr, lastCall, http, deliveries, summary, cleaning>>
    \/ BatchPredictCall /\ UNCHANGED <<thr, lastCall, http, deliveries, summary, cleaning>>
    \/ \E a \in Artifacts : SetArtifact(DefaultPath, a) /\ UNCHANGED <<thr, lastCall, http, pred, deliveries, summary, cleaning>>

SpecPredictor == InitPredictor /\ [][NextPredictor]_vars

(***************************************************************************)
(* C5. Whatever predict_match or batch_predict hands to the Estimator has  *)
(* exactly the nine contract columns, in the contract's order, which is    *)
(* the order training uses (categorical_features + numerical_features);    *)
(* keys outside the contract are dropped.                                  *)
(***************************************************************************)
Contract ==
    <<"batting_team", "bowling_team", "venue", "city", "total_runs",
      "total_wickets", "run_rate", "extras_total", "overs_played">>

C5_ContractProjection ==
    pred.out.handed =>
        /\ pred.out.X.columns = Contract
        /\ pred.out.X.columns = train_feature_columns
        /\ \A r \in 1..Len(pred.out.X.rows) :
              DOMAIN pred.out.X.rows[r] = SeqSet(Contract)

\* a batch of two mappings, keyed in different orders and with different
\* extra keys, reached the Estimator
C5_Witness ==
    /\ pred.op = "batch_predict"
    /\ pred.out.handed
    /\ Len(pred.inputs) = 2
    /\ pred.inputs[1].keys # pred.inputs[2].keys
    /\ Has(pred.inputs[1], "season")
    /\ Has(pred.inputs[2], "match_id")
    /\ \A i \in 1..2 : \A c \in SeqSet(Contract) : Has(pred.inputs[i], c)
    /\ pred.out.exc = "none"

(***************************************************************************)
(* C6. When a mapping given to the predictor lacks required columns, the   *)
(* call fails with a missing-feature error that names every absent column. *)
(***************************************************************************)
Absent(d) == {c \in SeqSet(required_fields) : ~Has(d, c)}

CalledWith ==
    IF pred.op = "predict_match" THEN {pred.inputs[pred.i]}
    ELSE IF pred.op = "batch_predict" THEN SeqSet(pred.inputs)
    ELSE {}

AbsentInCall == UNION {Absent(d) : d \in CalledWith}

C6_ListsEveryAbsentColumn ==
    (pred.op # "none" /\ pred.out.stage # "load" /\ AbsentInCall # {}) =>
        /\ pred.out.stage = "missing"
        /\ SeqSet(pred.out.listed) = AbsentInCall

(***************************************************************************)
(* C7. batch_predict returns one result per input, result[i] built from    *)
(* the Estimator's label and probability pair for input[i], every row      *)
(* evaluated against the one handle the call obtained.                     *)
(***************************************************************************)
ValidMapping(d) == Absent(d) = {}

\* the Estimator's view of one mapping
RowOf(d) == [c \in SeqSet(Contract) |-> d.val[c]]

BatchAnswered ==
    /\ pred.op = "batch_predict"
    /\ pred.out.stage # "load"
    /\ \A i \in 1..Len(pred.inputs) : ValidMapping(pred.inputs[i])

PositionalResults ==
    /\ pred.out.exc = "none"
    /\ pred.out.loads = 1
    /\ pred.out.handle = cached_model
    /\ Len(pred.out.results) = Len(pred.inputs)
    /\ \A i \in 1..Len(pred.inputs) :
          LET proba == ProbaOf(pred.out.handle, RowOf(pred.inputs[i]))
              label == LabelOf(pred.out.handle, RowOf(pred.inputs[i]))
              res == pred.out.results[i]
          IN  /\ res.prediction_label = label
              /\ res.win_probability = Round4(proba[2])
              /\ res.loss_probability = Round4(proba[1])
              /\ res.prediction_text = "Batting Team Wins" <=> label = 1

C7_BatchPositional == BatchAnswered => PositionalResults

\* the same, for the batches that hold at least one mapping
BatchNonEmptyPositional == (BatchAnswered /\ pred.inputs # <<>>) => PositionalResults

(***************************************************************************)
(* The /api/predict handler of app.py.                                     *)
(***************************************************************************)
\* request.get_json(): no JSON document (None), or a JSON object
JsonNull == [json |-> FALSE, keys |-> <<>>, val |-> <<>>]
JsonObject(keys, val) == [json |-> TRUE, keys |-> keys, val |-> val]

\* app.py:99 "not data": None and the empty object are falsy
Falsy(data) == ~data.json \/ data.keys = <<>>

\* the texts float() reads as a number, with the number
IsNumeral(t) == t \in {"7", "-3", "21", "nan"}
NumeralValue(t) ==
    CASE t = "7"   -> Num(7)
      [] t = "-3"  -> Num(-3)
      [] t = "21"  -> Num(21)
      [] t = "nan" -> NaN

\* float(v), app.py:124: the exception it raises ("none" when it converts)
FloatError(v) ==
    CASE v.k = "null"                   -> "TypeError"
      [] v.k = "str" /\ ~IsNumeral(v.s) -> "ValueError"
      [] OTHER                          -> "none"
FloatOf(v) == IF v.k = "str" THEN NumeralValue(v.s) ELSE v

\* comparisons of a float with a number: every comparison with NaN is false
Less(v, c) == v.k = "num" /\ v.n < c
Greater(v, c) == v.k = "num" /\ v.n > c

MaxOvers == 20
MaxWickets == 10

\* app.py:121
numeric_fields ==
    <<"total_runs", "total_wickets", "overs_played", "extras_total", "run_rate">>

\* app.py:112
MissingFields(data) == Without(required_fields, DOMAIN data.val)

\* app.py:122-134, from field i on: the first field that fails ends the loop;
\* a field that converts is written back as a float
RECURSIVE NumericLoop(_, _)
NumericLoop(data, i) ==
    IF i > Len(numeric_fields) THEN [message |-> "", data |-> data]
    ELSE LET f == numeric_fields[i] IN
         IF FloatError(data.val[f]) # "none"
         THEN [message |-> f \o " must be a valid number", data |-> data]
         ELSE LET d2 == [data EXCEPT !.val[f] = FloatOf(data.val[f])] IN
              IF Less(d2.val[f], 0)
              THEN [message |-> f \o " cannot be negative", data |-> d2]
              ELSE NumericLoop(d2, i + 1)

\* app.py:137
TooManyOvers(v) == Greater(v, MaxOvers)
\* app.py:143
TooManyWicketsOffByOne(v) == Greater(v, MaxWickets + 1)
TooManyWickets(v) == Greater(v, MaxWickets)
\* app.py:149
SameTeams(data) == data.val["batting_team"] = data.val["bowling_team"]

\* app.py:99-153: the message of the first rule the body breaks, "" if none,
\* and the body with its numeric fields converted
Validate(data) ==
    IF Falsy(data) THEN [message |-> "No JSON data provided", data |-> data]
    ELSE IF MissingFields(data) # <<>>
    THEN [message |-> "Missing required fields", data |-> data]
    ELSE LET nl == NumericLoop(data, 1) IN
         IF nl.message # "" THEN nl
         ELSE IF TooManyOvers(nl.data.val["overs_played"])
         THEN [message |-> "overs_played cannot exceed 20 in T20 cricket", data |-> nl.data]
         ELSE IF TooManyWickets(nl.data.val["total_wickets"])
         THEN [message |-> "total_wickets cannot exceed 10", data |-> nl.data]
         ELSE IF SameTeams(nl.data)
         THEN [message |-> "batting_team and bowling_team must be different", data |-> nl.data]
         ELSE [message |-> "", data |-> nl.data]

ErrorResponse(code, message) ==
    [status |-> "error", code |-> code, message |-> message, prediction |-> "",
     win_probability |-> -1, loss_probability |-> -1, confidence |-> -1]

Max(a, b) == IF a > b THEN a ELSE b

\* app.py:159-166; confidence is in hundredths of a percent
SuccessResponse(result) ==
    [status |-> "success", code |-> 200, message |-> "",
     prediction |-> result.prediction_text,
     win_probability |-> result.win_probability,
     loss_probability |-> result.loss_probability,
     confidence |-> Max(result.win_probability, result.loss_probability)]

NotFoundMessage == "Model file not found. Please train the model first."

\* app.py:168-180: the two except clauses
ExceptionResponseCatchAll(exc) == ErrorResponse(500, "Prediction failed")
ExceptionResponse(exc) ==
    IF exc = "FileNotFoundError" THEN ErrorResponse(500, NotFoundMessage)
    ELSE ErrorResponse(500, "Prediction failed")

\* predict(), app.py:95-180, for a POST with body data: the response, whether
\* predict_match was invoked, and what the call did
Handle_predict(data, m, mp, st, n) ==
    LET v == Validate(data)
        o == PredictMatch(v.data, MODEL_PATH, m, mp, st, n)
    IN  IF v.message # ""
        THEN [resp |-> ErrorResponse(400, v.message), invoked |-> FALSE, out |-> NoOutcome,
              data |-> v.data]
        ELSE [resp |-> IF o.exc = "none" THEN SuccessResponse(o.results[1])
                       ELSE ExceptionResponse(o.exc),
              invoked |-> TRUE, out |-> o, data |-> v.data]

(***************************************************************************)
(* SpecApi: the application. Importing app.py tries to load the model      *)
(* (app.py:30-36); then /api/predict requests are served one at a time.    *)
(***************************************************************************)
ValidBody ==
    JsonObject(required_fields,
        [batting_team |-> Str("Mumbai Indians"), bowling_team |-> Str("Chennai Super Kings"),
         venue |-> Str("Wankhede Stadium"), city |-> Str("Mumbai"),
         total_runs |-> Num(180), total_wickets |-> Num(5), overs_played |-> Num(20),
         extras_total |-> Num(12), run_rate |-> Num(9)])

JsonValues ==
    {Num(-1), Num(0), Num(10), Num(11), Num(20), Num(21), Str("Mumbai Indians"),
     Str("Chennai Super Kings"), Str("7"), Str("-3"), Str("21"), Str("abc"), Str("nan"),
     Null}

\* the valid body with one field given another value, or left out
With(body, f, v) == [body EXCEPT !.val[f] = v]
Lacking(body, f) ==
    [body EXCEPT !.keys = Without(body.keys, {f}),
                 !.val = [key \in DOMAIN body.val \ {f} |-> body.val[key]]]

Bodies ==
    {JsonNull, JsonObject(<<>>, <<>>)}
        \cup {With(ValidBody, f, v) : f \in SeqSet(required_fields), v \in JsonValues}
        \cup {Lacking(ValidBody, f) : f \in SeqSet(required_fields)}

\* the load at import without its try/except: a failure ends the process
StartupUnhandled ==
    /\ http.phase = "boot"
    /\ \E lm \in {LoadModel(cached_model, model_path, storage, MODEL_PATH, nextId)} :
        /\ cached_model' = lm.cached
        /\ model_path' = lm.path
        /\ nextId' = IF lm.loaded THEN nextId + 1 ELSE nextId
        /\ http' = [http EXCEPT !.phase = IF lm.exc = "none" THEN "serving" ELSE "crashed",
                                 !.startup = IF lm.exc = "none" THEN "loaded" ELSE "failed"]
    /\ UNCHANGED storage

\* app.py:30-36: the load at import; a failure is printed and swallowed
Startup ==
    /\ http.phase = "boot"
    /\ \E lm \in {LoadModel(cached_model, model_path, storage, MODEL_PATH, nextId)} :
        /\ cached_model' = lm.cached
        /\ model_path' = lm.path
        /\ nextId' = IF lm.loaded THEN nextId + 1 ELSE nextId
        /\ http' = [http EXCEPT !.phase = "serving",
                                 !.startup = IF lm.exc = "none" THEN "loaded" ELSE "failed"]
    /\ UNCHANGED storage

\* POST /api/predict with body data
PredictRequest(data) ==
    /\ http.phase = "serving"
    /\ nextId < MaxLoads
    /\ \E h \in {Handle_predict(data, cached_model, model_path, storage, nextId)} :
        /\ IF h.invoked THEN ApplyOutcome(h.out) ELSE UNCHANGED storeVars
        /\ http' = [http EXCEPT !.served = TRUE, !.req = data, !.resp = h.resp,
                                 !.invoked = h.invoked, !.data = h.data,
                                 !.exc = h.out.exc, !.stage = h.out.stage,
                                 !.preLoaded = IsLoaded(cached_model),
                                 !.art = storage[MODEL_PATH],
                                 !.preModel = cached_model,
                                 !.handle = h.out.handle,
                                 !.touched = h.out.touched,
                                 !.loaded = h.out.loaded]

InitApi ==
    /\ cached_model = None
    /\ model_path = NonePath
    /\ \E a \in Artifacts : storage = [q \in Paths |-> IF q = MODEL_PATH THEN a ELSE "missing"]
    /\ nextId = 0
    /\ http = [phase |-> "boot", startup |-> "pending", served |-> FALSE, req |-> JsonNull,
               resp |-> ErrorResponse(0, ""), invoked |-> FALSE, data |-> JsonNull,
               exc |-> "none", stage |-> "", preLoaded |-> FALSE, art |-> "missing",
               preModel |-> None, handle |-> None, touched |-> FALSE, loaded |-> FALSE]
    /\ thr = Unused
    /\ lastCall = Unused
    /\ pred = Unused
    /\ deliveries = Unused
    /\ summary = Unused
    /\ cleaning = Unused

NextApi ==
    \/ Startup /\ UNCHANGED <<thr, lastCall, pred, deliveries, summary, cleaning>>
    \/ \E data \in Bodies : PredictRequest(data) /\ UNCHANGED <<thr, lastCall, pred, deliveries, summary, cleaning>>
    \/ \E a \in Artifacts : SetArtifact(MODEL_PATH, a) /\ UNCHANGED <<thr, lastCall, http, pred, deliveries, summary, cleaning>>

SpecApi == InitApi /\ [][NextApi]_vars

(***************************************************************************)
(* C3. A missing artifact and an artifact that fails to deserialize give   *)
(* different errors, at load_model and in the response; both answers have  *)
(* status "error"; a success is always the Estimator's own answer, never a *)
(* stub or a default.                                                      *)
(***************************************************************************)
Corrupt == {"truncated", "garbage"}

\* the last request reached predict_match with nothing cached
ColdRequest == http.served /\ http.invoked /\ ~http.preLoaded

NoPrediction ==
    /\ http.resp.status = "error"
    /\ http.resp.prediction = ""
    /\ http.resp.win_probability = -1
    /\ http.resp.loss_probability = -1

C3_NotFoundVersusLoadError ==
    /\ (ColdRequest /\ http.art = "missing") =>
          /\ http.exc = "FileNotFoundError"
          /\ http.resp.message = NotFoundMessage
          /\ NoPrediction
    /\ (ColdRequest /\ http.art \in Corrupt) =>
          /\ http.exc \notin {"none", "FileNotFoundError"}
          /\ http.resp.message # NotFoundMessage
          /\ NoPrediction
    /\ (http.served /\ http.resp.status = "success") =>
          /\ http.invoked /\ http.exc = "none"
          /\ IsLoaded(cached_model) /\ cached_model.src = MODEL_PATH
          /\ http.preLoaded \/ http.art = "ok"
          /\ http.resp.win_probability
                = Round4(ProbaOf(cached_model, RowOf(http.data))[2])
          /\ http.resp.loss_probability
                = Round4(ProbaOf(cached_model, RowOf(http.data))[1])
          /\ http.resp.prediction = "Batting Team Wins"
                <=> LabelOf(cached_model, RowOf(http.data)) = 1

\* a valid request met an artifact that is no pickle
C3_Witness ==
    /\ ColdRequest
    /\ http.art = "garbage"
    /\ http.req = ValidBody
    /\ http.resp.status = "error"

(***************************************************************************)
(* C4. Validation precedes inference: a request whose teams are equal,     *)
(* whose total_wickets exceeds 10, whose overs_played exceeds 20, that has *)
(* a negative or non-numeric numeric field, or that lacks a required       *)
(* field, is answered with an error and predict_match is not invoked.      *)
(* (float() reads the text "nan" as a number: NaN counts as numeric here,  *)
(* it is neither negative nor above any limit.)                            *)
(***************************************************************************)
\* what a JSON value says as a number, read off the value itself
Denotes(v) ==
    CASE v.k = "num"               -> v.n
      [] v.k = "str" /\ v.s = "7"  -> 7
      [] v.k = "str" /\ v.s = "-3" -> -3
      [] v.k = "str" /\ v.s = "21" -> 21
IsNumber(v) == v.k = "num" \/ (v.k = "str" /\ v.s \in {"7", "-3", "21"})
NonNumeric(v) == v.k = "null" \/ (v.k = "str" /\ v.s \notin {"7", "-3", "21", "nan"})

NumericFields == {"total_runs", "total_wickets", "overs_played", "extras_total", "run_rate"}

Invalid(req) ==
    \/ \E f \in SeqSet(Contract) : ~Has(req, f)
    \/ Has(req, "batting_team") /\ Has(req, "bowling_team")
          /\ req.val["batting_team"] = req.val["bowling_team"]
    \/ Has(req, "total_wickets") /\ IsNumber(req.val["total_wickets"])
          /\ Denotes(req.val["total_wickets"]) > 10
    \/ Has(req, "overs_played") /\ IsNumber(req.val["overs_played"])
          /\ Denotes(req.val["overs_played"]) > 20
    \/ \E f \in NumericFields :
          Has(req, f) /\ (NonNumeric(req.val[f])
                            \/ (IsNumber(req.val[f]) /\ Denotes(req.val[f]) < 0))

RECURSIVE Gcd(_, _)
Gcd(a, b) == IF b = 0 THEN a ELSE Gcd(b, a % b)
Abs(x) == IF x < 0 THEN -x ELSE x
Rat(n, d) == [k |-> "num", n |-> n \div Gcd(Abs(n), d), d |-> d \div Gcd(Abs(n), d)]
Zero == Rat(0, 1)
Inf == [k |-> "inf", n |-> 1, d |-> 0]
NegInf == [k |-> "-inf", n |-> -1, d |-> 0]
NotANumber == [k |-> "nan", n |-> 0, d |-> 0]

\* an integer column divided by a float column, feature_engineering.py:67:
\* pandas divides by zero without raising
Divide(x, y) ==
    IF y.n = 0
    THEN IF x > 0 THEN Inf ELSE IF x < 0 THEN NegInf ELSE NotANumber
    ELSE Rat(x * y.d, y.n)

\* feature_engineering.py:70 replace([np.inf, -np.inf], 0)
ReplaceInf(x) == IF x.k \in {"inf", "-inf"} THEN Zero ELSE x

\* feature_engineering.py:71 fillna(0)
FillNaForgotten(x) == x
FillNa(x) == IF x.k = "nan" THEN Zero ELSE x

\* feature_engineering.py:40 is_wicket = wicket_kind.notna().astype(int)
IsWicket(row) == IF row.wicket_kind # Null THEN 1 ELSE 0

\* the group keys, in the order groupby(sort=True) lists them; a row with a
\* null key column belongs to no group (groupby's dropna=True)
InningsNumbers == <<1, 2>>
GroupKeys ==
    <<[match_id |-> 1, innings |-> 1, batting_team |-> "A"],
      [match_id |-> 1, innings |-> 1, batting_team |-> "B"],
      [match_id |-> 1, innings |-> 2, batting_team |-> "A"],
      [match_id |-> 1, innings |-> 2, batting_team |-> "B"]>>

\* feature_engineering.py:43 groupby(['match_id', 'innings', 'batting_team'])
InGroup(row, key) ==
    /\ row.match_id = Num(key.match_id)
    /\ row.innings = Num(key.innings)
    /\ row.batting_team = Str(key.batting_team)

Group(table, key) == SelectSeq(table, LAMBDA row : InGroup(row, key))

\* 'sum' of an integer column: nulls are skipped
RECURSIVE SumOf(_, _)
SumOf(g, col) ==
    IF g = <<>> THEN 0
    ELSE (IF Head(g)[col].k = "num" THEN Head(g)[col].n ELSE 0) + SumOf(Tail(g), col)

RECURSIVE SumWickets(_)
SumWickets(g) == IF g = <<>> THEN 0 ELSE IsWicket(Head(g)) + SumWickets(Tail(g))

\* 'count': the non-null values of the column
CountOf(g, col) == Len(SelectSeq(g, LAMBDA row : row[col] # Null))

\* 'first': the first non-null value of the column in the group, null if none
LastOf(g, col) ==
    LET present == SelectSeq(g, LAMBDA row : row[col] # Null)
    IN  IF present = <<>> THEN Null ELSE present[Len(present)][col]
FirstOf(g, col) ==
    LET present == SelectSeq(g, LAMBDA row : row[col] # Null)
    IN  IF present = <<>> THEN Null ELSE present[1][col]

\* feature_engineering.py:43-74 for one group, with the columns of :77-92
SummaryRow(key, g) ==
    LET runs_off_bat_total == SumOf(g, "runs_batter")
        extras_total == SumOf(g, "runs_extras")
        balls_faced == CountOf(g, "ball")
        winner == FirstOf(g, "match_won_by")
        total_runs == runs_off_bat_total + extras_total
        overs_played == Rat(balls_faced, 6)
    IN  [match_id |-> key.match_id,
         innings |-> key.innings,
         season |-> FirstOf(g, "season"),
         venue |-> FirstOf(g, "venue"),
         city |-> FirstOf(g, "city"),
         batting_team |-> key.batting_team,
         bowling_team |-> FirstOf(g, "bowling_team"),
         total_runs |-> total_runs,
         total_wickets |-> SumWickets(g),
         balls_faced |-> balls_faced,
         overs_played |-> overs_played,
         run_rate |-> FillNa(ReplaceInf(Divide(total_runs, overs_played))),
         extras_total |-> extras_total,
         target |-> IF Str(key.batting_team) = winner THEN 1 ELSE 0]

\* aggregate_features(df): one row per group that has a delivery
RECURSIVE AggregateFrom(_, _)
AggregateFrom(table, i) ==
    IF i > Len(GroupKeys) THEN <<>>
    ELSE LET g == Group(table, GroupKeys[i]) IN
         (IF g = <<>> THEN <<>> ELSE <<SummaryRow(GroupKeys[i], g)>>)
            \o AggregateFrom(table, i + 1)

aggregate_features(table) == AggregateFrom(table, 1)

(***************************************************************************)
(* SpecAggregator: a table of deliveries, then aggregate_features on it.   *)
(***************************************************************************)
\* what happened on the ball: runs off the bat, extras, and a wicket or not
BallOutcomes ==
    {[runs_batter |-> Num(0), runs_extras |-> Num(0), wicket_kind |-> Null],
     [runs_batter |-> Num(3), runs_extras |-> Num(1), wicket_kind |-> Str("run out")]}

Deliveries ==
    {[match_id |-> Num(1), innings |-> Num(i), batting_team |-> bt, bowling_team |-> Str("C"),
      season |-> Str("2023"), venue |-> Str("Wankhede Stadium"), city |-> Str("Mumbai"),
      ball |-> b, runs_batter |-> o.runs_batter, runs_extras |-> o.runs_extras,
      wicket_kind |-> o.wicket_kind, match_won_by |-> w] :
        i \in SeqSet(InningsNumbers), bt \in {Str("A"), Str("B"), Null}, b \in {Num(1), Null},
        o \in BallOutcomes, w \in {Str("A"), Str("B"), Null}}

RECURSIVE TablesUpTo(_)
TablesUpTo(n) ==
    IF n = 0 THEN {<<>>}
    ELSE TablesUpTo(n - 1) \cup
         {Append(q, d) : q \in {r \in TablesUpTo(n - 1) : Len(r) = n - 1}, d \in Deliveries}

Aggregate ==
    /\ ~summary.done
    /\ summary' = [done |-> TRUE, rows |-> aggregate_features(deliveries)]
    /\ UNCHANGED <<deliveries, storeVars>>

InitAggregator ==
    /\ deliveries \in TablesUpTo(MaxDeliveries)
    /\ summary = [done |-> FALSE, rows |-> <<>>]
    /\ cleaning = Unused
    /\ cached_model = None
    /\ model_path = NonePath
    /\ storage = [q \in Paths |-> "missing"]
    /\ nextId = 0
    /\ thr = Unused
    /\ lastCall = Unused
    /\ http = Unused
    /\ pred = Unused

NextAggregator ==
    \/ Aggregate /\ UNCHANGED <<thr, lastCall, http, pred, cleaning>>

SpecAggregator == InitAggregator /\ [][NextAggregator]_vars

(***************************************************************************)
(* C8. Delivery accounting: for each (match_id, innings), the balls_faced  *)
(* of its summary rows add up to the number of deliveries the table holds  *)
(* for that match and innings.                                             *)
(***************************************************************************)
RECURSIVE BallsFaced(_)
BallsFaced(rows) == IF rows = <<>> THEN 0 ELSE Head(rows).balls_faced + BallsFaced(Tail(rows))

DeliveriesOf(m, i) ==
    Cardinality({x \in 1..Len(deliveries) :
                    deliveries[x].match_id = Num(m) /\ deliveries[x].innings = Num(i)})

C8_DeliveryAccounting ==
    summary.done =>
        \A i \in SeqSet(InningsNumbers) :
            BallsFaced(SelectSeq(summary.rows, LAMBDA r : r.match_id = 1 /\ r.innings = i))
                = DeliveriesOf(1, i)

(***************************************************************************)
(* C9. target is 1 exactly when the batting team is the group's winner,    *)
(* the first match_won_by value the group's deliveries carry; in a match   *)
(* where no delivery names a winner every row has target 0.                *)
(***************************************************************************)
\* the positions in the table of the deliveries of a summary row's group
Members(r) ==
    {x \in 1..Len(deliveries) :
        /\ deliveries[x].match_id = Num(r.match_id)
        /\ deliveries[x].innings = Num(r.innings)
        /\ deliveries[x].batting_team = Str(r.batting_team)}

\* the group's first delivery that names a winner names the batting team
BattingTeamWon(r) ==
    \E x \in Members(r) :
        /\ deliveries[x].match_won_by = Str(r.batting_team)
        /\ \A y \in Members(r) : y < x => deliveries[y].match_won_by = Null

NoWinner(m) ==
    \A x \in 1..Len(deliveries) :
        deliveries[x].match_id = Num(m) => deliveries[x].match_won_by = Null

C9_TargetIsWinner ==
    summary.done =>
        \A j \in 1..Len(summary.rows) :
            /\ summary.rows[j].target \in {0, 1}
            /\ summary.rows[j].target = 1 <=> BattingTeamWon(summary.rows[j])
            /\ NoWinner(summary.rows[j].match_id) => summary.rows[j].target = 0

\* a row with target 1 whose group names the batting team first and the
\* other team after it
C9_Witness ==
    /\ summary.done
    /\ \E j \in 1..Len(summary.rows) :
          /\ summary.rows[j].target = 1
          /\ \E x, y \in Members(summary.rows[j]) :
                /\ x < y
                /\ deliveries[x].match_won_by = Str(summary.rows[j].batting_team)
                /\ deliveries[y].match_won_by \notin {Null, Str(summary.rows[j].batting_team)}

(***************************************************************************)
(* C10. run_rate is 0 whenever overs_played is 0, with or without runs,    *)
(* and is never NaN or infinite; otherwise it is total_runs / overs_played,*)
(* where overs_played = balls_faced / 6.                                   *)
(***************************************************************************)
C10_RunRate ==
    summary.done =>
        \A j \in 1..Len(summary.rows) :
            LET r == summary.rows[j] IN
            /\ r.overs_played.k = "num" /\ r.overs_played.d > 0
            /\ r.overs_played.n * 6 = r.balls_faced * r.overs_played.d
            /\ r.run_rate.k = "num" /\ r.run_rate.d > 0
            /\ r.overs_played.n = 0 => r.run_rate.n = 0
            /\ r.overs_played.n # 0 =>
                  r.run_rate.n * r.overs_played.n = r.total_runs * r.overs_played.d * r.run_rate.d

\* one table with an innings of no counted ball and no run, and an innings
\* of no counted ball that still has runs
C10_Witness ==
    /\ summary.done
    /\ \E j \in 1..Len(summary.rows) :
          summary.rows[j].balls_faced = 0 /\ summary.rows[j].total_runs = 0
    /\ \E j \in 1..Len(summary.rows) :
          summary.rows[j].balls_faced = 0 /\ summary.rows[j].total_runs > 0


(***************************************************************************)
(* The cleaner: clean_data of preprocessing/feature_engineering.py.  A     *)
(* table is a sequence of innings-summary rows; a missing cell is Null in  *)
(* a text column and NaN in a numeric one.  match_id stands for the        *)
(* columns clean_data never looks at, which only drop_duplicates compares. *)
(***************************************************************************)
MaxRows == 3
MaxPasses == 2

\* pandas isna: None and NaN are both missing
IsNa(v) == v.k \in {"null", "nan"}

\* df.dropna(subset=cols): keeps the rows with no missing cell in cols
DropNa(rows, cols) == SelectSeq(rows, LAMBDA r : \A c \in cols : ~IsNa(r[c]))

\* a comparison with a missing cell is False, so the mask filters the row out
LessEq(v, c) == v.k = "num" /\ v.n <= c

\* df[col] = df[col].fillna(value)
FillColumn(rows, col, value) ==
    [i \in 1..Len(rows) |-> IF IsNa(rows[i][col]) THEN [rows[i] EXCEPT ![col] = value]
                            ELSE rows[i]]

\* df.drop_duplicates(): of rows equal in every column the first is kept
RECURSIVE drop_duplicates(_)
drop_duplicates(rows) ==
    IF rows = <<>> THEN <<>>
    ELSE LET n == Len(rows)
             front == drop_duplicates(SubSeq(rows, 1, n - 1))
         IN  IF \E j \in 1..(n - 1) : rows[j] = rows[n] THEN front
             ELSE Append(front, rows[n])

critical_columns == {"batting_team", "bowling_team", "venue", "target"}

\* clean_data with the duplicates dropped before the missing cells are filled
clean_data_dedup_first(df) ==
    LET notna == DropNa(df, critical_columns)
        played == SelectSeq(notna, LAMBDA r : Greater(r.overs_played, 0))
        sane == SelectSeq(played, LAMBDA r : LessEq(r.run_rate, 50))
        unique == drop_duplicates(sane)
        city == FillColumn(unique, "city", Str("Unknown"))
    IN  FillColumn(city, "extras_total", Num(0))

\* feature_engineering.py:98-128
clean_data(df) ==
    LET notna == DropNa(df, critical_columns)
        played == SelectSeq(notna, LAMBDA r : Greater(r.overs_played, 0))
        sane == SelectSeq(played, LAMBDA r : LessEq(r.run_rate, 50))
        city == FillColumn(sane, "city", Str("Unknown"))
        extras == FillColumn(city, "extras_total", Num(0))
    IN  drop_duplicates(extras)

\* one complete row that clean_data keeps as it is
CleanRow ==
    [match_id |-> Num(1), batting_team |-> Str("CSK"), bowling_team |-> Str("MI"),
     venue |-> Str("Wankhede"), target |-> Num(1), overs_played |-> Num(20),
     run_rate |-> Num(8), city |-> Str("Mumbai"), extras_total |-> Num(4)]

\* what each column may hold instead
Alternatives ==
    [match_id |-> {Num(2)}, batting_team |-> {Null}, bowling_team |-> {Null},
     venue |-> {Null}, target |-> {Num(0), NaN}, overs_played |-> {Num(0), NaN},
     run_rate |-> {Num(50), Num(51), NaN}, city |-> {Str("Unknown"), Null},
     extras_total |-> {Num(0), NaN}]

\* the rows of the tables: CleanRow with one column changed, or with both
\* filled columns missing
SummaryRows ==
    {CleanRow}
    \cup UNION {{[CleanRow EXCEPT ![c] = v] : v \in Alternatives[c]} : c \in DOMAIN CleanRow}
    \cup {[CleanRow EXCEPT !.city = Null, !.extras_total = NaN]}

SummaryTablesUpTo(n) ==
    IF n = 0 THEN {<<>>}
    ELSE UNION {[1..k -> SummaryRows] : k \in 0..n}

\* one pass: df = clean_data(df)
CleanData ==
    /\ cleaning.passes < MaxPasses
    /\ cleaning' = [cleaning EXCEPT !.passes = @ + 1, !.before = cleaning.df,
                                    !.df = clean_data(cleaning.df)]
    /\ UNCHANGED storeVars

InitCleaner ==
    /\ \E t \in SummaryTablesUpTo(MaxRows) :
           cleaning = [input |-> t, passes |-> 0, before |-> t, df |-> t]
    /\ cached_model = None
    /\ model_path = NonePath
    /\ storage = [q \in Paths |-> "missing"]
    /\ nextId = 0
    /\ thr = Unused
    /\ lastCall = Unused
    /\ http = Unused
    /\ pred = Unused
    /\ deliveries = Unused
    /\ summary = Unused

NextCleaner ==
    \/ CleanData /\ UNCHANGED <<thr, lastCall, http, pred, deliveries, summary>>

SpecCleaner == InitCleaner /\ [][NextCleaner]_vars

\* a row as clean_data leaves it
Cleaned(r) ==
    /\ \A c \in critical_columns : ~IsNa(r[c])
    /\ Greater(r.overs_played, 0)
    /\ LessEq(r.run_rate, 50)
    /\ ~IsNa(r.city)
    /\ ~IsNa(r.extras_total)

NoDuplicates(rows) == \A i, j \in 1..Len(rows) : rows[i] = rows[j] => i = j

\* C11: clean_data is idempotent.  After one pass every row has its critical
\* columns present, overs_played > 0, run_rate <= 50, city and extras_total
\* filled and no exact duplicate; a further pass removes and changes nothing.
C11_CleanerIdempotent ==
    /\ cleaning.passes >= 1
           => /\ \A i \in 1..Len(cleaning.df) : Cleaned(cleaning.df[i])
              /\ NoDuplicates(cleaning.df)
    /\ cleaning.passes >= 2 => cleaning.df = cleaning.before

\* a second pass over a table whose first pass dropped a row, filled a
\* missing city and removed the duplicate the filling made
C11_Witness ==
    /\ cleaning.passes = 2
    /\ Len(cleaning.input) = 3
    /\ Len(cleaning.df) = 1
    /\ \E i \in 1..3 : IsNa(cleaning.input[i].city) /\ ~IsNa(cleaning.input[i].target)
    /\ \E i \in 1..3 : cleaning.input[i].city = Str("Unknown")
    /\ cleaning.df[1].city = Str("Unknown")
    /\ \A i, j \in 1..3 : i # j => cleaning.input[i] # cleaning.input[j]


(***************************************************************************)
(* C12. Lazy load after a failed startup load.                             *)
(***************************************************************************)
\* the last request passed validation and reached predict_match
ValidRequest == http.served /\ http.invoked

\* C12: when load_model(MODEL_PATH) fails at startup the server still starts,
\* with an empty cache.  A later request with a valid body that finds the
\* cache empty goes to storage again: while the artifact is missing or
\* corrupt the answer is an error and the cache stays empty; once the
\* artifact is loadable the request loads it into the cache and uses it.  A
\* request that finds the cache filled uses that handle and leaves storage
\* alone.
C12_LazyLoadAfterFailedStartup ==
    http.startup = "failed" =>
        /\ http.phase = "serving"
        /\ ~http.served => ~IsLoaded(cached_model)
        /\ (ValidRequest /\ ~http.preLoaded) =>
              /\ http.touched
              /\ http.art # "ok" =>
                    /\ http.resp.status = "error"
                    /\ ~http.loaded
                    /\ ~IsLoaded(cached_model)
              /\ http.art = "ok" =>
                    /\ http.loaded
                    /\ IsLoaded(cached_model)
                    /\ cached_model.src = MODEL_PATH
                    /\ model_path = MODEL_PATH
                    /\ http.handle = cached_model
                    /\ http.req = ValidBody => http.resp.status = "success"
        /\ (ValidRequest /\ http.preLoaded) =>
              /\ ~http.touched
              /\ ~http.loaded
              /\ http.handle = http.preModel
              /\ cached_model = http.preModel
              /\ http.req = ValidBody => http.resp.status = "success"

\* after a failed startup load a request is answered from the cache although
\* the artifact is gone again: an earlier request loaded it lazily
C12_Witness ==
    /\ http.startup = "failed"
    /\ ValidRequest
    /\ http.preLoaded
    /\ http.art = "missing"
    /\ http.req = ValidBody
    /\ http.resp.status = "success"
    /\ http.handle = cached_model


(***************************************************************************)
(* C13. Handle and path under interleaved loads of two paths.              *)
(***************************************************************************)
\* the call of thread t returned a handle
Succeeded(t) == thr[t].pc = "done"

\* C13: whatever the interleaving, a call load_model(p) that returns gives a
\* handle deserialized from p, never one deserialized from another path.
C13_HandleOfRequestedPath ==
    \A t \in Threads : Succeeded(t) => thr[t].result.src = thr[t].arg


(***************************************************************************)
(* C14. A load that raises leaves the slot alone.                          *)
(***************************************************************************)
\* the last call raised while a model was cached
FailedOverCached == lastCall.made /\ lastCall.exc # "none" /\ IsLoaded(lastCall.preModel)

\* the last call asked for the path that was cached when the call before it
\* raised
FollowsFailure ==
    /\ lastCall.made
    /\ lastCall.prev.made
    /\ lastCall.prev.exc # "none"
    /\ IsLoaded(lastCall.prev.preModel)
    /\ lastCall.arg = lastCall.prev.prePath

\* C14: when load_model(q) raises, for a missing artifact or one that does
\* not deserialize, while a model of p is cached, the slot still holds the
\* same handle and p; the next call load_model(p) returns that handle and
\* does not touch storage.
C14_FailedLoadKeepsSlot ==
    /\ FailedOverCached =>
          /\ lastCall.touched
          /\ lastCall.arg # lastCall.prePath
          /\ cached_model = lastCall.preModel
          /\ model_path = lastCall.prePath
    /\ FollowsFailure =>
          /\ lastCall.exc = "none"
          /\ lastCall.ret = lastCall.prev.preModel
          /\ ~lastCall.touched
          /\ cached_model = lastCall.prev.preModel
          /\ model_path = lastCall.prev.prePath

\* load_model(p) answered from the cache right after a load of the other
\* path failed to deserialize, with p's own artifact gone by then
C14_Witness ==
    /\ FollowsFailure
    /\ lastCall.prev.exc \in {"EOFError", "UnpicklingError"}
    /\ IsLoaded(lastCall.ret)
    /\ lastCall.ret.src = lastCall.arg
    /\ storage[lastCall.arg] = "missing"

====
